---------------------------- MODULE Spec2Model ----------------------------
(***************************************************************************)
(* A model of the IMNU Smart Timetable Viewer (src/app.py).                *)
(*                                                                         *)
(* Text is a sequence of one-character strings; the typographic apostrophe *)
(* U+2019 is the single character written RSQUO.  The regular expressions  *)
(* the program hands to re.search are sequences of pattern elements that   *)
(* a backtracking matcher (re_match) runs the way Python's re does: greedy *)
(* repetition, leftmost match first.                                       *)
(***************************************************************************)
EXTENDS Integers, Sequences, FiniteSets, TLC

VARIABLES
    pc,               \* position of the script / of the function under test
    roll_no,          \* st.text_input value
    roll_lists,       \* os.listdir(ROLL_LIST_DIR), each file with its sheet
    weekly_df,        \* the weekly timetable sheet
    master_df,        \* the master course sheet
    enrolled_courses, \* get_student_courses(roll_no)
    results,          \* the list of match dicts
    final_df,         \* the final table
    ui,               \* what the page shows: the st.* calls made
    download,         \* rows written to the Excel download, or <<>>
    file,             \* a roster file name (course derivation)
    course,           \* one element of enrolled_courses (matcher under test)
    cell,             \* str(row[session_col]) (matcher under test)
    session,          \* a session label (extract_start_time under test)
    ret               \* the value the function under test returned

vars == <<pc, roll_no, roll_lists, weekly_df, master_df, enrolled_courses,
          results, final_df, ui, download, file, course, cell, session, ret>>

-----------------------------------------------------------------------------
(* Characters and strings *)

RSQUO == "rsquo"
NL == "\n"

Digits == {"0", "1", "2", "3", "4", "5", "6", "7", "8", "9"}
UpperSeq ==
    <<"A", "B", "C", "D", "E", "F", "G", "H", "I", "J", "K", "L", "M", "N",
      "O", "P", "Q", "R", "S", "T", "U", "V", "W", "X", "Y", "Z">>
LowerSeq ==
    <<"a", "b", "c", "d", "e", "f", "g", "h", "i", "j", "k", "l", "m", "n",
      "o", "p", "q", "r", "s", "t", "u", "v", "w", "x", "y", "z">>
Upper == {UpperSeq[i] : i \in 1..Len(UpperSeq)}
Lower == {LowerSeq[i] : i \in 1..Len(LowerSeq)}
\* \w of Python's re: letters, digits and the underscore
WordChars == Digits \cup Upper \cup Lower \cup {"_"}
\* \s of Python's re
Spaces == {" ", NL}

\* concatenation of a sequence of strings
RECURSIVE Flatten(_)
Flatten(ss) == IF ss = <<>> THEN <<>> ELSE Head(ss) \o Flatten(Tail(ss))

\* s.startswith(p) at 1-based offset i
HasAt(s, i, p) ==
    /\ i + Len(p) - 1 <= Len(s)
    /\ \A k \in 1..Len(p) : s[i + k - 1] = p[k]

\* str.endswith
endswith(s, suf) == Len(suf) <= Len(s) /\ HasAt(s, Len(s) - Len(suf) + 1, suf)

\* str.replace(old, new): every non-overlapping occurrence, left to right
RECURSIVE replace_from(_, _, _, _)
replace_from(s, i, old, new) ==
    IF i > Len(s) THEN <<>>
    ELSE IF HasAt(s, i, old)
         THEN new \o replace_from(s, i + Len(old), old, new)
         ELSE <<s[i]>> \o replace_from(s, i + 1, old, new)

replace(s, old, new) == replace_from(s, 1, old, new)

\* str.split(sep) for a one-character separator
RECURSIVE split_from(_, _, _, _)
split_from(s, i, sep, acc) ==
    IF i > Len(s) THEN <<acc>>
    ELSE IF s[i] = sep
         THEN <<acc>> \o split_from(s, i + 1, sep, <<>>)
         ELSE split_from(s, i + 1, sep, Append(acc, s[i]))

split(s, sep) == split_from(s, 1, sep, <<>>)

\* sep in s
contains_char(s, c) == \E i \in 1..Len(s) : s[i] = c

\* str.strip(): leading and trailing whitespace removed
RECURSIVE lstrip(_)
lstrip(s) == IF s # <<>> /\ Head(s) \in Spaces THEN lstrip(Tail(s)) ELSE s

RECURSIVE rstrip(_)
rstrip(s) ==
    IF s # <<>> /\ s[Len(s)] \in Spaces THEN rstrip(SubSeq(s, 1, Len(s) - 1))
    ELSE s

strip(s) == rstrip(lstrip(s))

\* str.upper() of one character
upper_char(c) ==
    IF c \in Lower
    THEN UpperSeq[CHOOSE i \in 1..Len(LowerSeq) : LowerSeq[i] = c]
    ELSE c

upper(s) == [i \in 1..Len(s) |-> upper_char(s[i])]

-----------------------------------------------------------------------------
(* Text literals *)

CS1 == <<"C", "S", "1">>
CS101 == <<"C", "S", "1", "0", "1">>
MA1 == <<"M", "A", "1">>
DotXlsx == <<".", "x", "l", "s", "x">>
DotTxt == <<".", "t", "x", "t">>
T1000 == <<"1", "0", ":", "0", "0">>
T1100 == <<"1", "1", ":", "0", "0">>
LunchBreak == <<"L", "u", "n", "c", "h", " ", "B", "r", "e", "a", "k">>

\* all sequences over S of length at most n
SeqsUpTo(S, n) == UNION {[1..k -> S] : k \in 0..n}

\* all texts made of at most n of the pieces
Texts(pieces, n) == {Flatten(ps) : ps \in SeqsUpTo(pieces, n)}

-----------------------------------------------------------------------------
(* Python's re: pattern elements and the backtracking matcher *)

\* a consuming element: between lo and hi characters (hi = -1: unbounded),
\* each in cls (or, with neg, each not in cls), as many as possible first
Rep(cls, neg, lo, hi) ==
    [kind |-> "rep", cls |-> cls, neg |-> neg, lo |-> lo, hi |-> hi]
Lit(c) == Rep({c}, FALSE, 1, 1)
\* "." : any character but a newline
Dot == Rep({NL}, TRUE, 1, 1)
\* \b
WordBoundary == [kind |-> "wb", cls |-> {}, neg |-> FALSE, lo |-> 0, hi |-> 0]
\* (?!c)
NotFollowedBy(c) ==
    [kind |-> "nla", cls |-> {c}, neg |-> FALSE, lo |-> 0, hi |-> 0]

IsWordAt(s, i) == i >= 1 /\ i <= Len(s) /\ s[i] \in WordChars

Accepts(e, c) == IF e.neg THEN c \notin e.cls ELSE c \in e.cls

\* re_match(pat, k, n, s, i): with the elements before k matched, and n
\* characters already taken by element k, the position after the first full
\* match found in backtracking order from position i of s, or 0 when none
RECURSIVE re_match(_, _, _, _, _)
re_match(pat, k, n, s, i) ==
    IF k > Len(pat) THEN i
    ELSE LET e == pat[k] IN
         IF e.kind = "wb"
         THEN IF IsWordAt(s, i - 1) # IsWordAt(s, i)
              THEN re_match(pat, k + 1, 0, s, i) ELSE 0
         ELSE IF e.kind = "nla"
         THEN IF i <= Len(s) /\ s[i] \in e.cls
              THEN 0 ELSE re_match(pat, k + 1, 0, s, i)
         ELSE LET more == IF /\ (e.hi = -1 \/ n < e.hi)
                             /\ i <= Len(s)
                             /\ Accepts(e, s[i])
                          THEN re_match(pat, k, n + 1, s, i + 1)
                          ELSE 0
              IN  IF more # 0 THEN more
                  ELSE IF n >= e.lo THEN re_match(pat, k + 1, 0, s, i)
                  ELSE 0

\* re.search: the leftmost start with a match, as <<start, end>> (end
\* exclusive), or <<0, 0>> when the pattern matches nowhere
RECURSIVE re_search_from(_, _, _)
re_search_from(pat, s, i) ==
    IF i > Len(s) + 1 THEN <<0, 0>>
    ELSE LET j == re_match(pat, 1, 0, s, i) IN
         IF j # 0 THEN <<i, j>> ELSE re_search_from(pat, s, i + 1)

re_search(pat, s) == re_search_from(pat, s, 1)

\* re.escape(s): every character stands for itself
re_escape(s) == [i \in 1..Len(s) |-> Lit(s[i])]

\* text interpolated into a pattern unescaped: "." is the wildcard
re_raw(s) == [i \in 1..Len(s) |-> IF s[i] = "." THEN Dot ELSE Lit(s[i])]


-----------------------------------------------------------------------------
(* Course identifiers and the Timetable Matcher's rule (app.py 70-80) *)

\* course.split("_")[0]
subject_code_of(c) == split(c, "_")[1]

\* course.split("_")[1] if "_" in course else ""
div_code_of(c) == IF contains_char(c, "_") THEN split(c, "_")[2] ELSE <<>>

\* rf"\b{re.escape(subject_code)}\(['RSQUO]?\s*{div_code}\)"
pattern_div(subject_code, div_code) ==
    <<WordBoundary>> \o re_escape(subject_code)
      \o <<Lit("("), Rep({"'", RSQUO}, FALSE, 0, 1), Rep(Spaces, FALSE, 0, -1)>>
      \o re_raw(div_code) \o <<Lit(")")>>

\* the pattern without its (?!\() lookahead
pattern_nodiv_no_lookahead(subject_code) ==
    <<WordBoundary>> \o re_escape(subject_code)

\* rf"\b{re.escape(subject_code)}(?!\()"
pattern_nodiv(subject_code) ==
    <<WordBoundary>> \o re_escape(subject_code) \o <<NotFollowedBy("(")>>

\* re.search(pattern, cell) as the condition of the if
cell_matches(c, text) ==
    LET subject_code == subject_code_of(c)
        div_code == div_code_of(c)
        pattern == IF div_code # <<>> THEN pattern_div(subject_code, div_code)
                   ELSE pattern_nodiv(subject_code)
    IN  re_search(pattern, text)[1] # 0

-----------------------------------------------------------------------------
(* extract_start_time (app.py 39-51) *)

None == [ok |-> FALSE, hour |-> 0, minute |-> 0]
Time(h, m) == [ok |-> TRUE, hour |-> h, minute |-> m]

DigitVal(c) ==
    CASE c = "0" -> 0 [] c = "1" -> 1 [] c = "2" -> 2 [] c = "3" -> 3
      [] c = "4" -> 4 [] c = "5" -> 5 [] c = "6" -> 6 [] c = "7" -> 7
      [] c = "8" -> 8 [] c = "9" -> 9

\* r"(\d{1,2}[:.]?\d{0,2}\s*[AP]M)" under re.IGNORECASE
time_pattern ==
    <<Rep(Digits, FALSE, 1, 2), Rep({":", "."}, FALSE, 0, 1),
      Rep(Digits, FALSE, 0, 2), Rep(Spaces, FALSE, 0, -1),
      Rep({"A", "P", "a", "p"}, FALSE, 1, 1), Rep({"M", "m"}, FALSE, 1, 1)>>

\* %I of strptime, the alternatives 1[0-2] | 0[1-9] | [1-9] in that order:
\* those that match at the start of t, as [prio, val, next]
hour_alts(t) ==
    {[prio |-> 1, val |-> 10 + DigitVal(t[2]), next |-> 3] : x \in
        {y \in {1} : Len(t) >= 2 /\ t[1] = "1" /\ t[2] \in {"0", "1", "2"}}}
    \cup
    {[prio |-> 2, val |-> DigitVal(t[2]), next |-> 3] : x \in
        {y \in {1} : Len(t) >= 2 /\ t[1] = "0" /\ t[2] \in Digits \ {"0"}}}
    \cup
    {[prio |-> 3, val |-> DigitVal(t[1]), next |-> 2] : x \in
        {y \in {1} : Len(t) >= 1 /\ t[1] \in Digits \ {"0"}}}

\* %M of strptime, the alternatives [0-5]\d | \d in that order, at position i
minute_alts(t, i) ==
    {[prio |-> 1, val |-> 10 * DigitVal(t[i]) + DigitVal(t[i + 1]),
      next |-> i + 2] : x \in
        {y \in {1} : /\ Len(t) >= i + 1
                     /\ t[i] \in {"0", "1", "2", "3", "4", "5"}
                     /\ t[i + 1] \in Digits}}
    \cup
    {[prio |-> 2, val |-> DigitVal(t[i]), next |-> i + 1] : x \in
        {y \in {1} : Len(t) >= i /\ t[i] \in Digits}}

\* %p of strptime at position i: am | pm, case ignored
meridiem_at(t, i) ==
    /\ Len(t) >= i + 1
    /\ upper_char(t[i]) \in {"A", "P"}
    /\ upper_char(t[i + 1]) = "M"

\* the 24-hour time of a parsed %I, %M, %p
to_time(h, m, p) ==
    Time(IF p = "P" THEN (IF h = 12 THEN 12 ELSE h + 12)
         ELSE (IF h = 12 THEN 0 ELSE h), m)

\* the first parse in backtracking order among cands ([prio, h, m, next]),
\* which must use all of t (else "unconverted data remains"); a ValueError is
\* None
strptime_result(t, cands) ==
    IF cands = {} THEN None
    ELSE LET f == CHOOSE c \in cands : \A d \in cands : c.prio <= d.prio IN
         IF f.next + 2 = Len(t) + 1
         THEN to_time(f.h, f.m, upper_char(t[f.next]))
         ELSE None

\* datetime.strptime(t, "%I:%M%p").time()
strptime_IMp(t) ==
    strptime_result(t,
        {[prio |-> 2 * h.prio + m.prio, h |-> h.val, m |-> m.val,
          next |-> m.next] :
            <<h, m>> \in
              {hm \in UNION {{<<h, m>> : m \in minute_alts(t, h.next + 1)} :
                        h \in {g \in hour_alts(t) :
                                 Len(t) >= g.next /\ t[g.next] = ":"}} :
                 meridiem_at(t, hm[2].next)}})

\* datetime.strptime(t, "%I%p").time()
strptime_Ip(t) ==
    strptime_result(t,
        {[prio |-> h.prio, h |-> h.val, m |-> 0, next |-> h.next] :
            h \in {g \in hour_alts(t) : meridiem_at(t, g.next)}})

extract_start_time(label) ==
    LET s == strip(replace(label, <<NL>>, <<" ">>))
        match == re_search(time_pattern, s)
    IN  IF match[1] # 0
        THEN LET time_str ==
                   upper(replace(SubSeq(s, match[1], match[2] - 1),
                                 <<".">>, <<":">>))
                 first == strptime_IMp(time_str)
             IN  IF first.ok THEN first
                 ELSE LET second == strptime_Ip(time_str) IN
                      IF second.ok THEN second ELSE None
        ELSE None

-----------------------------------------------------------------------------
(* Roster Resolver: get_student_courses (app.py 27-36) *)

\* a sheet value: text as read, or a whole number
StrVal(t) == [t |-> "str", s |-> t, n |-> 0]
IntVal(k) == [t |-> "int", s |-> <<>>, n |-> k]

DigitChar(d) ==
    CASE d = 0 -> "0" [] d = 1 -> "1" [] d = 2 -> "2" [] d = 3 -> "3"
      [] d = 4 -> "4" [] d = 5 -> "5" [] d = 6 -> "6" [] d = 7 -> "7"
      [] d = 8 -> "8" [] d = 9 -> "9"

\* str(k) for k >= 0
RECURSIVE int_str(_)
int_str(k) ==
    IF k < 10 THEN <<DigitChar(k)>>
    ELSE int_str(k \div 10) \o <<DigitChar(k % 10)>>

\* one value of df[...].astype(str)
astype_str(v) == IF v.t = "str" THEN v.s ELSE int_str(v.n)

\* roll_no in df["Roll No."].astype(str).values
roll_in_sheet(r, f) == \E k \in 1..Len(f.values) : astype_str(f.values[k]) = r

\* the loop of get_student_courses with the column test left out
RECURSIVE get_student_courses_any_column(_, _)
get_student_courses_any_column(r, listing) ==
    IF listing = <<>> THEN <<>>
    ELSE LET f == Head(listing)
             rest == get_student_courses_any_column(r, Tail(listing))
         IN  IF endswith(f.name, DotXlsx) /\ roll_in_sheet(r, f)
             THEN <<replace(f.name, DotXlsx, <<>>)>> \o rest
             ELSE rest

\* for file in os.listdir(ROLL_LIST_DIR): ... student_courses.append(base)
RECURSIVE get_student_courses(_, _)
get_student_courses(r, listing) ==
    IF listing = <<>> THEN <<>>
    ELSE LET f == Head(listing)
             rest == get_student_courses(r, Tail(listing))
         IN  IF /\ endswith(f.name, DotXlsx)
                /\ f.header = "Roll No."
                /\ roll_in_sheet(r, f)
             THEN <<replace(f.name, DotXlsx, <<>>)>> \o rest
             ELSE rest

-----------------------------------------------------------------------------
(* Timetable Matcher: the loop over rows, session columns and courses
   (app.py 66-88) *)

\* the matches of one cell, in the order of enrolled_courses
cell_results(row, c, cols, courses) ==
    Flatten([k \in 1..Len(courses) |->
        IF cell_matches(courses[k], row.cells[c])
        THEN <<[Date |-> row.Date,
                Day |-> row.Day,
                Session |-> strip(replace(cols[c], <<NL>>, <<" ">>)),
                Subject |-> subject_code_of(courses[k]),
                Div |-> div_code_of(courses[k]),
                CellInfo |-> row.cells[c]]>>
        ELSE <<>>])

find_matches(df, courses) ==
    Flatten([r \in 1..Len(df.rows) |->
        Flatten([c \in 1..Len(df.session_cols) |->
            cell_results(df.rows[r], c, df.session_cols, courses)])])

-----------------------------------------------------------------------------
(* Schedule Assembler (app.py 95-111) *)

NaN == "NaN"
NaT == [nat |-> TRUE, day |-> 0]

\* the rows of the master sheet whose Abbre. is the subject, in sheet order
master_rows(master, subject) == SelectSeq(master, LAMBDA m : m.Abbre = subject)

joined(r, m) ==
    [Date |-> r.Date, Day |-> r.Day, Session |-> r.Session,
     Subject |-> r.Subject, Div |-> r.Div,
     Faculty |-> m.Faculty, Venue |-> m.Venue]

\* merge(how="inner"): a match with no master row is dropped
merge_inner(res, master) ==
    Flatten([k \in 1..Len(res) |->
        LET ms == master_rows(master, res[k].Subject) IN
        [j \in 1..Len(ms) |-> joined(res[k], ms[j])]])

\* result_df.merge(master_df, left_on="Subject", right_on="Abbre.",
\* how="left")[[...]]
merge_left(res, master) ==
    Flatten([k \in 1..Len(res) |->
        LET ms == master_rows(master, res[k].Subject) IN
        IF ms = <<>>
        THEN <<joined(res[k], [Faculty |-> NaN, Venue |-> NaN])>>
        ELSE [j \in 1..Len(ms) |-> joined(res[k], ms[j])]])

subset_key(r) == <<r.Date, r.Day, r.Session, r.Subject, r.Div>>

\* drop_duplicates(subset=[Date, Day, Session, Subject, Div]), keep="first"
drop_duplicates(df) ==
    SelectSeq([k \in 1..Len(df) |->
                  [row |-> df[k],
                   first |-> \A j \in 1..(k - 1) :
                               subset_key(df[j]) # subset_key(df[k])]],
              LAMBDA x : x.first)

\* pd.to_datetime(value, errors="coerce")
to_datetime(v) == IF v.kind = "datetime" THEN [nat |-> FALSE, day |-> v.day]
                  ELSE NaT

minutes(t) == 60 * t.hour + t.minute

\* the order of sort_values on one column, missing values last
date_lt(a, b) == IF a.nat THEN FALSE ELSE (b.nat \/ a.day < b.day)
time_lt(a, b) == IF ~a.ok THEN FALSE ELSE (~b.ok \/ minutes(a) < minutes(b))

\* by=["Date"] alone
row_lt_date_only(a, b) == date_lt(a.Date, b.Date)

\* by=["Date", "Start_Time"]
row_lt(a, b) ==
    \/ date_lt(a.Date, b.Date)
    \/ a.Date = b.Date /\ time_lt(a.Start_Time, b.Start_Time)

\* the stable sort of sort_values: each row goes after the rows not greater
RECURSIVE insert_sorted(_, _)
insert_sorted(sorted, x) ==
    IF sorted = <<>> THEN <<x>>
    ELSE IF row_lt(x, Head(sorted)) THEN <<x>> \o sorted
    ELSE <<Head(sorted)>> \o insert_sorted(Tail(sorted), x)

RECURSIVE sort_values(_)
sort_values(df) ==
    IF df = <<>> THEN <<>>
    ELSE insert_sorted(sort_values(SubSeq(df, 1, Len(df) - 1)), df[Len(df)])

\* .dt.strftime("%d %b"): the day of a date, NaN for NaT
strftime(d) == IF d.nat THEN NaN ELSE int_str(d.day)

\* .str[:3]
first3(t) == SubSeq(t, 1, IF Len(t) < 3 THEN Len(t) ELSE 3)

\* app.py 95-111 on the list of matches
assemble(res, master) ==
    LET merged == merge_left(res, master)
        dedup == drop_duplicates(merged)
        timed == [k \in 1..Len(dedup) |->
                    LET r == dedup[k].row IN
                    [Date |-> to_datetime(r.Date), Day |-> r.Day,
                     Session |-> r.Session, Subject |-> r.Subject,
                     Div |-> r.Div, Faculty |-> r.Faculty, Venue |-> r.Venue,
                     Start_Time |-> extract_start_time(r.Session)]]
        sorted == sort_values(timed)
    IN  [k \in 1..Len(sorted) |->
           LET r == sorted[k] IN
           [Date |-> r.Date, Day |-> first3(r.Day), Session |-> r.Session,
            Subject |-> r.Subject, Div |-> r.Div, Faculty |-> r.Faculty,
            Venue |-> r.Venue, Start_Time |-> r.Start_Time,
            DisplayDate |-> strftime(r.Date)]]

\* one card of the schedule (app.py 117-139)
card(r, today) ==
    [today |-> (~r.Date.nat /\ r.Date.day = today),
     DisplayDate |-> r.DisplayDate, Day |-> r.Day, Session |-> r.Session,
     Subject |-> r.Subject, Div |-> r.Div, Faculty |-> r.Faculty,
     Venue |-> r.Venue]

\* final_df.drop(columns=["Display Date", "Start_Time"]) (app.py 143)
export_row(r) ==
    [Date |-> r.Date, Day |-> r.Day, Session |-> r.Session,
     Subject |-> r.Subject, Div |-> r.Div, Faculty |-> r.Faculty,
     Venue |-> r.Venue]

-----------------------------------------------------------------------------
(* The state while no lookup runs, and while no function is under test *)

\* the page before anything is shown
BlankPage ==
    [warning |-> FALSE, success |-> <<>>, error |-> FALSE, header |-> FALSE,
     cards |-> <<>>, button |-> FALSE]

NoLookup ==
    /\ roll_no = <<>>
    /\ roll_lists = <<>>
    /\ weekly_df = [session_cols |-> <<>>, rows |-> <<>>]
    /\ master_df = <<>>
    /\ enrolled_courses = <<>>
    /\ results = <<>>
    /\ final_df = <<>>
    /\ ui = BlankPage
    /\ download = <<>>

lookup_vars == <<roll_no, roll_lists, weekly_df, master_df, enrolled_courses,
                 results, final_df, ui, download>>

-----------------------------------------------------------------------------
(* The matching rule applied to one cell and one enrolled course *)

MaxCellPieces == 5

CellPieces == {CS101, <<"0">>, <<"(">>, <<")">>, <<"A">>, <<RSQUO>>, <<" ">>}

\* roster stems: CS1, CS101, CS101_A, CS101_B, CS101_A.
Courses ==
    {CS1, CS101, CS101 \o <<"_", "A">>, CS101 \o <<"_", "B">>,
     CS101 \o <<"_", "A", ".">>}

InitMatch ==
    /\ NoLookup
    /\ pc = "cell"
    /\ cell \in Texts(CellPieces, MaxCellPieces)
    /\ course \in Courses
    /\ file = <<>>
    /\ session = <<>>
    /\ ret = FALSE

\* app.py 75-80: the pattern is chosen and searched for in the cell
MatchCell ==
    /\ pc = "cell"
    /\ ret' = cell_matches(course, cell)
    /\ pc' = "searched"
    /\ UNCHANGED <<lookup_vars, file, course, cell, session>>

NextMatch == MatchCell

SpecMatch == InitMatch /\ [][NextMatch]_vars

-----------------------------------------------------------------------------
(* extract_start_time applied to one session label *)

MaxLabelPieces == 5

LabelPieces ==
    {T1000, T1100, <<"2">>, <<":", "3", "0">>, <<"-">>, <<" ">>, <<"A", "M">>,
     <<"P", "M">>, LunchBreak}

InitTime ==
    /\ NoLookup
    /\ pc = "label"
    /\ session \in Texts(LabelPieces, MaxLabelPieces)
    /\ file = <<>>
    /\ course = <<>>
    /\ cell = <<>>
    /\ ret = None

ExtractStartTime ==
    /\ pc = "label"
    /\ ret' = extract_start_time(session)
    /\ pc' = "extracted"
    /\ UNCHANGED <<lookup_vars, file, course, cell, session>>

NextTime == ExtractStartTime

SpecTime == InitTime /\ [][NextTime]_vars

-----------------------------------------------------------------------------
(* A roster file name accepted by get_student_courses and split into the
   course identifier (app.py 30-35, 71-72) *)

MaxNamePieces == 4

NamePieces == {CS101, <<"_">>, <<"A">>, <<"B">>, DotXlsx, DotTxt}

InitCourse ==
    /\ NoLookup
    /\ pc = "file"
    /\ file \in Texts(NamePieces, MaxNamePieces)
    /\ course = <<>>
    /\ cell = <<>>
    /\ session = <<>>
    /\ ret = [subject_code |-> <<>>, div_code |-> <<>>]

\* app.py 31, 34-35: a name ending in .xlsx gives the course its base
AcceptFile ==
    /\ pc = "file"
    /\ endswith(file, DotXlsx)
    /\ course' = replace(file, DotXlsx, <<>>)
    /\ pc' = "accepted"
    /\ UNCHANGED <<lookup_vars, file, cell, session, ret>>

\* app.py 31: any other name is passed over
SkipFile ==
    /\ pc = "file"
    /\ ~endswith(file, DotXlsx)
    /\ pc' = "skipped"
    /\ UNCHANGED <<lookup_vars, file, course, cell, session, ret>>

\* app.py 71-72
DeriveCodes ==
    /\ pc = "accepted"
    /\ ret' = [subject_code |-> subject_code_of(course),
               div_code |-> div_code_of(course)]
    /\ pc' = "derived"
    /\ UNCHANGED <<lookup_vars, file, course, cell, session>>

NextCourse == AcceptFile \/ SkipFile \/ DeriveCodes

SpecCourse == InitCourse /\ [][NextCourse]_vars

-----------------------------------------------------------------------------
(* One lookup: the script from the roll number to the download button.
   The script runs top to bottom; pc is the stage it has reached. *)

MaxRows == 2
MaxFiles == 2

R14 == <<"1", "4">>
R21 == <<"2", "1">>
Monday == <<"M", "o", "n", "d", "a", "y">>
Mon == <<"M", "o", "n">>
Tuesday == <<"T", "u", "e", "s", "d", "a", "y">>
L0900 == <<"9", ":", "0", "0", "A", "M">>
L1030 == <<"1", "0", ":", "3", "0", "A", "M", NL>>
TextNan == <<"n", "a", "n">>
CellA == CS101 \o <<"(", "A", ")">>
CellAM == CS101 \o <<"(", RSQUO, "A", ")", " ">> \o MA1
CellAA == CellA \o <<" ">> \o CellA

Datetime(d) == [kind |-> "datetime", day |-> d]
TextDate == [kind |-> "text", day |-> 0]

File(name, header, values) ==
    [name |-> name, header |-> header, values |-> values]

\* rosters: CS101_A.xlsx, MA1.xlsx, CS101_B.xlsx
FixedRoster ==
    <<File(CS101 \o <<"_", "A">> \o DotXlsx, "Roll No.", <<StrVal(R14)>>),
      File(MA1 \o DotXlsx, "Roll No.", <<IntVal(14), StrVal(R21)>>),
      File(CS101 \o <<"_", "B">> \o DotXlsx, "Roll No.", <<StrVal(R21)>>)>>

RosterFiles ==
    {File(n, h, v) :
       n \in {CS101 \o <<"_", "A">> \o DotXlsx, CS101 \o <<"_", "B">> \o DotXlsx,
              MA1 \o DotTxt},
       h \in {"Roll No.", "Roll"},
       v \in {<<StrVal(R14)>>, <<IntVal(14)>>, <<IntVal(140)>>, <<StrVal(R21)>>}}

\* directory listings of at most n files: file names are distinct
RosterListings(n) ==
    {l \in SeqsUpTo(RosterFiles, n) :
       \A a, b \in 1..Len(l) : a # b => l[a].name # l[b].name}

MasterRow(a, f, v) == [Abbre |-> a, Faculty |-> f, Venue |-> v]

\* CS101 twice and MA1 missing
MasterRepeated ==
    <<MasterRow(CS101, "Prof. A", "Room 5"), MasterRow(CS101, "Prof. B", "Lab 2")>>

\* one row per course
MasterUnique ==
    <<MasterRow(CS101, "Prof. A", "Room 5"), MasterRow(MA1, "Prof. C", "Room 7")>>

TimetableRows ==
    {[Date |-> d.Date, Day |-> d.Day, cells |-> c] :
       d \in {[Date |-> Datetime(1), Day |-> Monday],
              [Date |-> Datetime(1), Day |-> Mon],
              [Date |-> Datetime(2), Day |-> Tuesday],
              [Date |-> TextDate, Day |-> Monday]},
       c \in {<<CellA, CellAM>>, <<CellAA, TextNan>>}}

SessionLabels == {L0900, L1030, LunchBreak}

\* timetables of two session columns and at most n rows
Timetables(n) ==
    {[session_cols |-> cols, rows |-> rs] :
       cols \in {p \in SessionLabels \X SessionLabels : p[1] # p[2]},
       rs \in SeqsUpTo(TimetableRows, n)}

FixedTimetable ==
    [session_cols |-> <<L0900, L1030>>,
     rows |-> <<[Date |-> Datetime(1), Day |-> Monday,
                 cells |-> <<CellA, CellAM>>]>>]

\* the calendar days datetime.now().date() may be
Todays == {1, 2}

Init ==
    /\ pc = "input"
    /\ \/ /\ roll_no = R14
          /\ roll_lists = FixedRoster
          /\ weekly_df \in Timetables(MaxRows)
          /\ master_df \in {MasterRepeated, MasterUnique}
       \/ /\ roll_no \in {<<>>, R14, R21}
          /\ roll_lists \in RosterListings(MaxFiles)
          /\ weekly_df = FixedTimetable
          /\ master_df = MasterUnique
    /\ enrolled_courses = <<>>
    /\ results = <<>>
    /\ final_df = <<>>
    /\ ui = BlankPage
    /\ download = <<>>
    /\ file = <<>>
    /\ course = <<>>
    /\ cell = <<>>
    /\ session = <<>>
    /\ ret = FALSE

function_vars == <<file, course, cell, session, ret>>
input_vars == <<roll_no, roll_lists, weekly_df, master_df>>

\* app.py 56: an empty roll number, nothing runs
NoRollNumber ==
    /\ pc = "input"
    /\ roll_no = <<>>
    /\ pc' = "done"
    /\ UNCHANGED <<input_vars, enrolled_courses, results, final_df, ui,
                   download, function_vars>>

\* app.py 59-62: no roster holds the roll number
NotEnrolled ==
    /\ pc = "input"
    /\ roll_no # <<>>
    /\ get_student_courses(roll_no, roll_lists) = <<>>
    /\ enrolled_courses' = <<>>
    /\ ui' = [ui EXCEPT !.warning = TRUE]
    /\ pc' = "done"
    /\ UNCHANGED <<input_vars, results, final_df, download, function_vars>>

\* app.py 59-64: the courses are found and shown
Enrolled ==
    /\ pc = "input"
    /\ roll_no # <<>>
    /\ get_student_courses(roll_no, roll_lists) # <<>>
    /\ enrolled_courses' = get_student_courses(roll_no, roll_lists)
    /\ ui' = [ui EXCEPT !.success = enrolled_courses']
    /\ pc' = "matching"
    /\ UNCHANGED <<input_vars, results, final_df, download, function_vars>>

\* app.py 66-93: no cell of the timetable names an enrolled course
NoClasses ==
    /\ pc = "matching"
    /\ find_matches(weekly_df, enrolled_courses) = <<>>
    /\ results' = <<>>
    /\ ui' = [ui EXCEPT !.error = TRUE]
    /\ pc' = "done"
    /\ UNCHANGED <<input_vars, enrolled_courses, final_df, download,
                   function_vars>>

\* app.py 66-92: the matches are collected
Match ==
    /\ pc = "matching"
    /\ find_matches(weekly_df, enrolled_courses) # <<>>
    /\ results' = find_matches(weekly_df, enrolled_courses)
    /\ pc' = "assembling"
    /\ UNCHANGED <<input_vars, enrolled_courses, final_df, ui, download,
                   function_vars>>

\* app.py 95-111: merge, drop_duplicates, sort, display columns
Assemble ==
    /\ pc = "assembling"
    /\ final_df' = assemble(results, master_df)
    /\ pc' = "rendering"
    /\ UNCHANGED <<input_vars, enrolled_courses, results, ui, download,
                   function_vars>>

\* app.py 112-139: one card per row, today's rows highlighted
Render ==
    /\ pc = "rendering"
    /\ \E today \in Todays :
         ui' = [ui EXCEPT !.header = TRUE,
                          !.cards = [k \in 1..Len(final_df) |->
                                       card(final_df[k], today)]]
    /\ pc' = "exporting"
    /\ UNCHANGED <<input_vars, enrolled_courses, results, final_df, download,
                   function_vars>>

\* app.py 141-153: the Excel file behind the download button
Export ==
    /\ pc = "exporting"
    /\ download' = [k \in 1..Len(final_df) |-> export_row(final_df[k])]
    /\ ui' = [ui EXCEPT !.button = TRUE]
    /\ pc' = "done"
    /\ UNCHANGED <<input_vars, enrolled_courses, results, final_df,
                   function_vars>>

Next ==
    \/ NoRollNumber
    \/ NotEnrolled
    \/ Enrolled
    \/ NoClasses
    \/ Match
    \/ Assemble
    \/ Render
    \/ Export

Spec == Init /\ [][Next]_vars

-----------------------------------------------------------------------------
(* Properties of the matching rule *)

Alnum == Digits \cup Upper \cup Lower

OccursIn(S, text) == \E i \in 1..Len(text) : HasAt(text, i, S)

\* S occurs in text, and each time with a letter or digit right after it
OnlyAsProperPrefix(S, text) ==
    /\ OccursIn(S, text)
    /\ \A i \in 1..Len(text) :
         HasAt(text, i, S) =>
           /\ i + Len(S) <= Len(text)
           /\ text[i + Len(S)] \in Alnum

\* each occurrence of S in text has "(" right after it
EveryOccurrenceQualified(S, text) ==
    \A i \in 1..Len(text) :
      HasAt(text, i, S) =>
        /\ i + Len(S) <= Len(text)
        /\ text[i + Len(S)] = "("

SpaceRun(k) == [i \in 1..k |-> " "]

\* text holds S on a leading token boundary, then "(", an optional
\* apostrophe, optional blanks, D and ")"
ContainsQualified(S, D, text) ==
    \E i \in 1..Len(text), a \in {<<>>, <<"'">>, <<RSQUO>>}, k \in 0..Len(text) :
      /\ IsWordAt(text, i - 1) # IsWordAt(text, i)
      /\ HasAt(text, i, S \o <<"(">> \o a \o SpaceRun(k) \o D \o <<")">>)

\* C1: for a course with no division, a cell in which the subject code
\* occurs only as a proper prefix of a longer alphanumeric code does not
\* match, and a cell that is the subject code alone does match.
C1_TokenBoundary ==
    (pc = "searched" /\ div_code_of(course) = <<>>) =>
      /\ OnlyAsProperPrefix(subject_code_of(course), cell) => ~ret
      /\ cell = subject_code_of(course) => ret

\* C2: for a course with a division D, a cell matches exactly when it holds
\* the subject code on a leading token boundary followed by "(", an optional
\* apostrophe, optional whitespace, D and ")".
C2_DivisionQualified ==
    (pc = "searched" /\ div_code_of(course) # <<>>) =>
      (ret <=> ContainsQualified(subject_code_of(course), div_code_of(course),
                                 cell))

\* C3: for a course with no division, a cell in which every occurrence of
\* the subject code is immediately followed by "(" does not match.
C3_QualifiedNeverMatchesNoDivision ==
    (/\ pc = "searched"
     /\ div_code_of(course) = <<>>
     /\ EveryOccurrenceQualified(subject_code_of(course), cell)) => ~ret

\* the cell CS101(A) looked up for the course CS101 has been searched and
\* did not match
C3_Witness ==
    /\ pc = "searched"
    /\ course = CS101
    /\ cell = CS101 \o <<"(", "A", ")">>
    /\ ~ret

-----------------------------------------------------------------------------
(* Properties of extract_start_time *)

\* C4: extract_start_time("10:00-11:00 AM") is the time 10:00.
C4_RangeGivesStart ==
    (pc = "extracted" /\ session = T1000 \o <<"-">> \o T1100 \o <<" ", "A", "M">>)
      => ret = Time(10, 0)

\* C5: extract_start_time("2 PM") is the time 14:00, and a label with no
\* time token ("Lunch Break") gives None.
C5_HourOnlyFallback ==
    pc = "extracted" =>
      /\ session = <<"2", " ", "P", "M">> => ret = Time(14, 0)
      /\ session = LunchBreak => ret = None

-----------------------------------------------------------------------------
(* Properties of the course identifier *)

\* the name without its final extension
Stem(name) == SubSeq(name, 1, Len(name) - Len(DotXlsx))

\* the text before the first sep, and the text after it
BeforeFirst(s, sep) ==
    IF contains_char(s, sep)
    THEN SubSeq(s, 1, (CHOOSE i \in 1..Len(s) :
                         s[i] = sep /\ \A j \in 1..(i - 1) : s[j] # sep) - 1)
    ELSE s

AfterFirst(s, sep) ==
    IF contains_char(s, sep)
    THEN SubSeq(s, (CHOOSE i \in 1..Len(s) :
                      s[i] = sep /\ \A j \in 1..(i - 1) : s[j] # sep) + 1, Len(s))
    ELSE <<>>

\* C10: for every file name ending in .xlsx, the subject code (the stem's
\* text before the first "_") is not empty, and the division code is the
\* part of the stem after the subject code (empty when there is no "_").
C10_SubjectCodeNeverEmpty ==
    pc = "derived" =>
      /\ ret.subject_code = BeforeFirst(Stem(file), "_")
      /\ ret.subject_code # <<>>
      /\ ret.div_code = AfterFirst(Stem(file), "_")

-----------------------------------------------------------------------------
(* Properties of one lookup *)

Assembled == pc \in {"rendering", "exporting", "done"} /\ results # <<>>

final_key(r) == <<r.Date, r.Day, r.Session, r.Subject, r.Div>>

\* C6: no two entries of the final table share (date, day name, session
\* label, subject code, division code).
C6_FinalTableUnique ==
    Assembled =>
      \A i, j \in 1..Len(final_df) :
        i # j => final_key(final_df[i]) # final_key(final_df[j])

\* C7: whatever the order of the timetable's rows and session columns, the
\* final table is in ascending date order and, within one date, in ascending
\* order of the extracted start time.
C7_OrderedByDateThenStart ==
    Assembled =>
      \A i, j \in 1..Len(final_df) :
        i < j =>
          LET a == final_df[i]
              b == final_df[j]
          IN  /\ (~a.Date.nat /\ ~b.Date.nat) => a.Date.day <= b.Date.day
              /\ (a.Date = b.Date /\ a.Start_Time.ok /\ b.Start_Time.ok) =>
                   minutes(a.Start_Time) <= minutes(b.Start_Time)

\* the timetable has the 10:30 column before the 9:00 column and a row of
\* day 2 before a row of day 1, and the final table has day 1 first and a
\* 9:00 entry before a 10:30 entry of the same date
C7_Witness ==
    /\ pc = "done"
    /\ weekly_df.session_cols = <<L1030, L0900>>
    /\ Len(weekly_df.rows) = 2
    /\ weekly_df.rows[1].Date = Datetime(2)
    /\ weekly_df.rows[2].Date = Datetime(1)
    /\ final_df[1].Date.day = 1
    /\ final_df[Len(final_df)].Date.day = 2
    /\ \E i, j \in 1..Len(final_df) :
         /\ i < j
         /\ final_df[i].Date = final_df[j].Date
         /\ final_df[i].Start_Time = Time(9, 0)
         /\ final_df[j].Start_Time = Time(10, 30)

\* the number a string of decimal digits writes
RECURSIVE DecimalValue(_)
DecimalValue(t) ==
    IF t = <<>> THEN 0
    ELSE 10 * DecimalValue(SubSeq(t, 1, Len(t) - 1)) + DigitVal(t[Len(t)])

\* the sheet value v, written as a string, is r
EqualAsString(v, r) ==
    IF v.t = "str" THEN v.s = r
    ELSE /\ r # <<>>
         /\ \A k \in 1..Len(r) : r[k] \in Digits
         /\ Len(r) > 1 => r[1] # "0"
         /\ DecimalValue(r) = v.n

\* f is a spreadsheet with a roll-number column that holds r
Qualifies(f, r) ==
    /\ endswith(f.name, DotXlsx)
    /\ f.header = "Roll No."
    /\ \E k \in 1..Len(f.values) : EqualAsString(f.values[k], r)

ExpectedCourses(r, listing) ==
    LET q == SelectSeq(listing, LAMBDA f : Qualifies(f, r)) IN
    [k \in 1..Len(q) |-> Stem(q[k].name)]

C9_SkipAndContinue ==
    Assembled =>
      /\ Len(final_df) = Cardinality({subset_key(results[k]) : k \in 1..Len(results)})
      /\ \A k \in 1..Len(results) :
           \E i \in 1..Len(final_df) :
             /\ final_df[i].Date = to_datetime(results[k].Date)
             /\ final_df[i].Day = first3(results[k].Day)
             /\ final_df[i].Session = results[k].Session
             /\ final_df[i].Subject = results[k].Subject
             /\ final_df[i].Div = results[k].Div
             /\ (\A m \in 1..Len(master_df) : master_df[m].Abbre # results[k].Subject)
                  => (final_df[i].Faculty = NaN /\ final_df[i].Venue = NaN)
      /\ pc = "done" =>
           /\ ui.header
           /\ ui.button
           /\ Len(ui.cards) = Len(final_df)
           /\ Len(download) = Len(final_df)

\* a lookup that ended with a row whose Date is NaT, a row whose subject has
\* no master row and a row with no start time, all rendered and exported
C9_Witness ==
    /\ pc = "done"
    /\ ui.button
    /\ Len(download) = Len(final_df)
    /\ \E i \in 1..Len(final_df) : final_df[i].Date = NaT
    /\ \E i \in 1..Len(final_df) :
         final_df[i].Subject = MA1 /\ final_df[i].Faculty = NaN
    /\ \E i \in 1..Len(final_df) : final_df[i].Start_Time = None

=============================================================================
